---- MODULE Spec2Model ----
(***************************************************************************)
(* Model of beyblade_scraper.py: the suffix translation table, the record  *)
(* extractor (the regular expression of extract_combinations), the         *)
(* backward page locator, the page walk, the aggregation reports and the   *)
(* three-window run of main().                                             *)
(*                                                                         *)
(* Strings are sequences of one-character strings, so that case folding,   *)
(* stripping and the regular expression act on characters.  Positions are  *)
(* 1-based; an "end" position is the index just after the last character.  *)
(*                                                                         *)
(* A date is a number of days and datetime.now() is the same day for the   *)
(* whole run.  fetch_page either returns the page of the forum or fails;   *)
(* which requests fail is free, up to MaxFailures of them.  The branch     *)
(* end_page == "last" of scrape_multiple_pages has no caller and is left   *)
(* out; session set-up and the loading of the translation file are inputs. *)
(***************************************************************************)
EXTENDS Integers, Sequences, FiniteSets, TLC

VARIABLES
    pc,                 \* position of the running function
    \* translate_suffix / extract_combinations
    suffix, translations, translated,
    html_content, matches, combinations,
    \* the forum and the transport
    forum,              \* page number -> html of that page
    fetch_log,          \* the calls of fetch_page so far, in order
    failures,           \* number of failed fetches so far
    \* find_page_for_date
    target_date, start_page, max_pages_to_check, page_num, found,
    \* scrape_multiple_pages
    scrape_start_page, end_page, scrape_page_num, all_combinations,
    \* main and scrape_time_period
    now, last_marker, last_page_num, window, results, outputs,
    call                \* the arguments of the running scrape_time_period

transVars == <<suffix, translations, translated>>
extractVars == <<html_content, matches, combinations>>
netVars == <<forum, fetch_log, failures>>
locVars == <<target_date, start_page, max_pages_to_check, page_num, found>>
scrapeVars == <<scrape_start_page, end_page, scrape_page_num, all_combinations>>
runVars == <<now, last_marker, last_page_num, window, results, outputs, call>>
vars == <<pc, suffix, translations, translated, html_content, matches, combinations,
          forum, fetch_log, failures,
          target_date, start_page, max_pages_to_check, page_num, found,
          scrape_start_page, end_page, scrape_page_num, all_combinations,
          now, last_marker, last_page_num, window, results, outputs, call>>

\* Optional[int]: None is the empty sequence, a page number p is <<p>>
None == <<>>
Some(p) == <<p>>

\* no call of scrape_time_period is running
NoCall == [days |-> 0, hardcoded_start_page |-> None, search_start_page |-> None]

(***************************************************************************)
(* Characters                                                              *)
(***************************************************************************)
LowerAlpha == {"a", "b", "c", "d"}
UpperAlpha == {"A", "B", "C", "D"}
Alpha == LowerAlpha \cup UpperAlpha          \* [A-Za-z]
Digit == {"1", "2"}                          \* \d
Blank == {" ", "\t"}                         \* [ \t]
Space == {" ", "\t", "\n", "\r"}             \* \s
\* mutant of Terminator: no line break alternative and no re.MULTILINE
TerminatorNoNewline == {",", "("}

Terminator == {"\n", ",", "("}               \* \n | , | \(  ($ is handled by position)

\* str.lower() on one character
LowerChar(c) ==
    CASE c = "A" -> "a" [] c = "B" -> "b" [] c = "C" -> "c" [] c = "D" -> "d"
      [] OTHER -> c

\* str.lower()
Lower(s) == [i \in 1..Len(s) |-> LowerChar(s[i])]

\* str.strip(): drops leading and trailing whitespace
Strip(s) ==
    IF \A i \in 1..Len(s) : s[i] \in Space THEN <<>>
    ELSE LET first == CHOOSE i \in 1..Len(s) :
                         s[i] \notin Space /\ \A k \in 1..(i-1) : s[k] \in Space
             last  == CHOOSE i \in 1..Len(s) :
                         s[i] \notin Space /\ \A k \in (i+1)..Len(s) : s[k] \in Space
         IN SubSeq(s, first, last)

\* str.replace(' ', ''): drops the space characters only
RemoveSpaces(s) == SelectSeq(s, LAMBDA c : c # " ")

(***************************************************************************)
(* translate_suffix: translations is the dict in insertion order, a        *)
(* sequence of [key, value] with distinct keys.                            *)
(***************************************************************************)
HasKey(table, s) == \E i \in 1..Len(table) : table[i].key = s

Lookup(table, s) == table[CHOOSE i \in 1..Len(table) : table[i].key = s].value

FirstCaseInsensitive(table, s) ==
    CHOOSE i \in 1..Len(table) :
        /\ Lower(table[i].key) = Lower(s)
        /\ \A k \in 1..(i-1) : Lower(table[k].key) # Lower(s)

\* mutant of translate_suffix: the case-insensitive scan comes first
translate_suffix_scan_first(s, table) ==
    IF \E i \in 1..Len(table) : Lower(table[i].key) = Lower(s)
    THEN table[FirstCaseInsensitive(table, s)].value
    ELSE s

\* mutant of translate_suffix: a suffix without translation is dropped
translate_suffix_drops_unknown(s, table) ==
    IF HasKey(table, s) THEN Lookup(table, s)
    ELSE IF \E i \in 1..Len(table) : Lower(table[i].key) = Lower(s)
         THEN table[FirstCaseInsensitive(table, s)].value
         ELSE <<>>

translate_suffix(s, table) ==
    IF HasKey(table, s) THEN Lookup(table, s)
    ELSE IF \E i \in 1..Len(table) : Lower(table[i].key) = Lower(s)
         THEN table[FirstCaseInsensitive(table, s)].value
         ELSE s

\* The pattern of extract_combinations, matched by a backtracking engine:
\*   ([A-Za-z]+(?:[ \t]+[A-Za-z]+)*)[ \t]+(\d+-\d+)
\*   ([A-Za-z]+(?:[ \t]+[A-Za-z]+)*?)(?=\s*(?:\n|$|,|\())
\* From a start position the first group is greedy, and only its longest
\* extent can be followed by blanks and a digit; each digit run must be
\* maximal because a dash, resp. a letter, has to follow; the third group is
\* lazy and stops at the first word end where the lookahead holds.

\* first position >= i whose character is not in cls (Len(t)+1 when none)
RunEnd(t, i, cls) ==
    CHOOSE e \in i..(Len(t) + 1) :
        /\ \A k \in i..(e-1) : t[k] \in cls
        /\ (e = Len(t) + 1 \/ t[e] \notin cls)

\* the greedy repetition of group 1, continuing a word run that ends before e
RECURSIVE MoreWords(_, _)
MoreWords(t, e) ==
    LET w == RunEnd(t, e, Blank)
        l == RunEnd(t, w, Alpha)
    IN IF w = e \/ l = w THEN e ELSE MoreWords(t, l)

\* group 1 from i: the end of its longest extent, 0 when no letter at i
WordsEnd(t, i) ==
    LET e == RunEnd(t, i, Alpha)
    IN IF e = i THEN 0 ELSE MoreWords(t, e)

\* (?=\s*(?:\n|$|,|\()) at position p, with re.MULTILINE
Lookahead(t, p) ==
    \E q \in p..(Len(t) + 1) :
        /\ \A k \in p..(q-1) : t[k] \in Space
        /\ (q = Len(t) + 1 \/ t[q] \in Terminator)

\* group 3, lazy: the word ends from e on, the first where the lookahead holds
RECURSIVE LazyWords(_, _)
LazyWords(t, e) ==
    IF Lookahead(t, e) THEN e
    ELSE LET w == RunEnd(t, e, Blank)
             l == RunEnd(t, w, Alpha)
         IN IF w = e \/ l = w THEN 0 ELSE LazyWords(t, l)

ThirdEnd(t, d) ==
    LET e == RunEnd(t, d, Alpha)
    IN IF e = d THEN 0 ELSE LazyWords(t, e)

\* the match starting exactly at i: [ok, groups, end]
NoMatch == [ok |-> FALSE, groups |-> <<>>, end |-> 0]

MatchAt(t, i) ==
    LET e1 == WordsEnd(t, i) IN
    IF e1 = 0 THEN NoMatch ELSE
    LET w == RunEnd(t, e1, Blank) IN
    IF w = e1 THEN NoMatch ELSE
    LET d1 == RunEnd(t, w, Digit) IN
    IF d1 = w \/ d1 > Len(t) \/ t[d1] # "-" THEN NoMatch ELSE
    LET d2 == RunEnd(t, d1 + 1, Digit) IN
    IF d2 = d1 + 1 THEN NoMatch ELSE
    LET e3 == ThirdEnd(t, d2) IN
    IF e3 = 0 THEN NoMatch ELSE
    [ok |-> TRUE,
     groups |-> <<SubSeq(t, i, e1 - 1), SubSeq(t, w, d2 - 1), SubSeq(t, d2, e3 - 1)>>,
     end |-> e3]

\* re.findall(pattern, text, re.MULTILINE): leftmost matches, non-overlapping
RECURSIVE FindAllFrom(_, _)
FindAllFrom(t, pos) ==
    IF pos > Len(t) THEN <<>>
    ELSE LET m == MatchAt(t, pos)
         IN IF m.ok THEN <<m.groups>> \o FindAllFrom(t, m.end)
            ELSE FindAllFrom(t, pos + 1)

FindAll(t) == FindAllFrom(t, 1)

\* the body of the loop over matches: the key built from one match
MatchKey(match, table) ==
    LET part1 == Strip(match[1])
        part2 == Strip(match[2])
        part3 == Strip(match[3])
        bits  == IF table # <<>> THEN translate_suffix(part3, table) ELSE part3
    IN <<RemoveSpaces(part1), RemoveSpaces(part2), RemoveSpaces(bits)>>

KeepKey(key) ==
    /\ key[1] # <<>> /\ key[2] # <<>> /\ key[3] # <<>>
    /\ \A f \in 1..3 : \A i \in 1..Len(key[f]) : key[f][i] # "\n"

RECURSIVE KeysOf(_, _)
KeysOf(ms, table) ==
    IF ms = <<>> THEN <<>>
    ELSE LET key == MatchKey(Head(ms), table)
         IN (IF KeepKey(key) THEN <<key>> ELSE <<>>) \o KeysOf(Tail(ms), table)

\* one post body
ExtractFromText(t, table) == KeysOf(FindAll(t), table)

\* html is [post_bodies, page_text]: the texts of the div.post_body elements
\* and the text of the whole page, used when there is no post body
PostTexts(html) ==
    IF html.post_bodies = <<>> THEN <<html.page_text>> ELSE html.post_bodies

RECURSIVE ExtractPosts(_, _)
ExtractPosts(posts, table) ==
    IF posts = <<>> THEN <<>>
    ELSE ExtractFromText(Head(posts), table) \o ExtractPosts(Tail(posts), table)

extract_combinations(html, table) == ExtractPosts(PostTexts(html), table)

\* the results of re.findall over the posts of a page, in order
RECURSIVE MatchesOf(_)
MatchesOf(posts) ==
    IF posts = <<>> THEN <<>> ELSE FindAll(Head(posts)) \o MatchesOf(Tail(posts))

(***************************************************************************)
(* fetch_page and the page date index                                      *)
(***************************************************************************)
\* the html of a page: the parsable post dates in post order, the texts of
\* the post bodies and the text of the whole page
Html(dates, post_bodies, page_text) ==
    [dates |-> dates, post_bodies |-> post_bodies, page_text |-> page_text]

NoContent == Html(<<>>, <<>>, <<>>)      \* the "" that fetch_page returns on error

\* the text every page of the forum carries around its posts
NavText == <<"#">>

\* fetch_page(page_number): the page when the request succeeds, "" otherwise
fetch_page(f, page_number, ok) == IF ok THEN f[page_number] ELSE NoContent

\* extract_dates_from_page
extract_dates_from_page(html) == html.dates

\* list.sort(): ascending
RECURSIVE InsertAsc(_, _)
InsertAsc(sorted, d) ==
    IF sorted = <<>> THEN <<d>>
    ELSE IF d < Head(sorted) THEN <<d>> \o sorted
         ELSE <<Head(sorted)>> \o InsertAsc(Tail(sorted), d)

RECURSIVE SortAsc(_)
SortAsc(dates) ==
    IF dates = <<>> THEN <<>>
    ELSE InsertAsc(SortAsc(SubSeq(dates, 1, Len(dates) - 1)), dates[Len(dates)])

\* mutants of InDateRange: the dates left in post order; the ends exclusive
InDateRangeUnsorted(dates, target) ==
    dates[1] <= target /\ target <= dates[Len(dates)]

InDateRangeStrict(dates, target) ==
    LET sorted == SortAsc(dates)
    IN sorted[1] < target /\ target < sorted[Len(sorted)]

\* earliest <= target_date <= latest, on the sorted dates of a page
InDateRange(dates, target) ==
    LET sorted   == SortAsc(dates)
        earliest == sorted[1]
        latest   == sorted[Len(sorted)]
    IN earliest <= target /\ target <= latest

(***************************************************************************)
(* find_page_for_date: one action per iteration of                         *)
(*   for page_num in range(start_page, start_page - max_pages_to_check, -1) *)
(***************************************************************************)
InProbeRange == page_num > start_page - max_pages_to_check

MaxFailures == 2     \* failed requests in one run

\* one call of fetch_page: why, for which window, which page, and whether
\* content came back
LogFetch(purpose, page_number, ok) ==
    fetch_log' = Append(fetch_log, [purpose |-> purpose, window |-> window,
                                    page |-> page_number, ok |-> ok])

\* if not html: continue
ProbeFailed ==
    /\ pc = "probe" /\ InProbeRange
    /\ failures < MaxFailures
    /\ fetch_page(forum, page_num, FALSE) = NoContent
    /\ LogFetch("probe", page_num, FALSE)
    /\ failures' = failures + 1
    /\ page_num' = page_num - 1
    /\ UNCHANGED <<pc, forum, target_date, start_page, max_pages_to_check, found>>
    /\ UNCHANGED <<transVars, extractVars, scrapeVars, runVars>>

\* if not dates: continue
ProbeNoDates ==
    /\ pc = "probe" /\ InProbeRange
    /\ LET html == fetch_page(forum, page_num, TRUE)
       IN /\ html # NoContent
          /\ extract_dates_from_page(html) = <<>>
    /\ LogFetch("probe", page_num, TRUE)
    /\ page_num' = page_num - 1
    /\ UNCHANGED <<pc, forum, failures, target_date, start_page, max_pages_to_check, found>>
    /\ UNCHANGED <<transVars, extractVars, scrapeVars, runVars>>

\* the target date is outside the page's range: next iteration
ProbeMiss ==
    /\ pc = "probe" /\ InProbeRange
    /\ LET dates == extract_dates_from_page(fetch_page(forum, page_num, TRUE))
       IN dates # <<>> /\ ~InDateRange(dates, target_date)
    /\ LogFetch("probe", page_num, TRUE)
    /\ page_num' = page_num - 1
    /\ UNCHANGED <<pc, forum, failures, target_date, start_page, max_pages_to_check, found>>
    /\ UNCHANGED <<transVars, extractVars, scrapeVars, runVars>>

\* return page_num
ProbeFound ==
    /\ pc = "probe" /\ InProbeRange
    /\ LET dates == extract_dates_from_page(fetch_page(forum, page_num, TRUE))
       IN dates # <<>> /\ InDateRange(dates, target_date)
    /\ LogFetch("probe", page_num, TRUE)
    /\ found' = Some(page_num)
    /\ pc' = "located"
    /\ UNCHANGED <<forum, failures, target_date, start_page, max_pages_to_check, page_num>>
    /\ UNCHANGED <<transVars, extractVars, scrapeVars, runVars>>

\* the range is exhausted: return None
ProbeGiveUp ==
    /\ pc = "probe" /\ ~InProbeRange
    /\ found' = None
    /\ pc' = "located"
    /\ UNCHANGED <<netVars, target_date, start_page, max_pages_to_check, page_num>>
    /\ UNCHANGED <<transVars, extractVars, scrapeVars, runVars>>

(***************************************************************************)
(* scrape_multiple_pages: one action per iteration of                      *)
(*   for page_num in range(start_page, actual_end_page + 1)                *)
(***************************************************************************)
InScrapeRange == scrape_page_num <= end_page

\* mutant of ScrapeFailed: a failed page ends the walk
ScrapeFailedStops ==
    /\ pc = "scrape" /\ InScrapeRange
    /\ failures < MaxFailures
    /\ LogFetch("scrape", scrape_page_num, FALSE)
    /\ failures' = failures + 1
    /\ pc' = "scraped"
    /\ UNCHANGED <<forum, scrape_start_page, end_page, scrape_page_num, all_combinations>>
    /\ UNCHANGED <<transVars, extractVars, locVars, runVars>>

\* else: "Skipping page (no content)"
ScrapeFailed ==
    /\ pc = "scrape" /\ InScrapeRange
    /\ failures < MaxFailures
    /\ fetch_page(forum, scrape_page_num, FALSE) = NoContent
    /\ LogFetch("scrape", scrape_page_num, FALSE)
    /\ failures' = failures + 1
    /\ scrape_page_num' = scrape_page_num + 1
    /\ UNCHANGED <<pc, forum, scrape_start_page, end_page, all_combinations>>
    /\ UNCHANGED <<transVars, extractVars, locVars, runVars>>

\* if html: all_combinations.extend(extract_combinations(html, translations))
ScrapePage ==
    /\ pc = "scrape" /\ InScrapeRange
    /\ LET html == fetch_page(forum, scrape_page_num, TRUE)
       IN /\ html # NoContent
          /\ all_combinations' =
                all_combinations \o extract_combinations(html, translations)
    /\ LogFetch("scrape", scrape_page_num, TRUE)
    /\ scrape_page_num' = scrape_page_num + 1
    /\ UNCHANGED <<pc, forum, failures, scrape_start_page, end_page>>
    /\ UNCHANGED <<transVars, extractVars, locVars, runVars>>

\* return all_combinations
ScrapeReturn ==
    /\ pc = "scrape" /\ ~InScrapeRange
    /\ pc' = "scraped"
    /\ UNCHANGED <<netVars, scrapeVars, transVars, extractVars, locVars, runVars>>

(***************************************************************************)
(* save_to_csv, generate_summary, generate_combination_counts and          *)
(* generate_html_charts                                                    *)
(***************************************************************************)
CsvHeader ==
    << <<"B", "l", "a", "d", "e", "s">>, <<"R", "a", "t", "c", "h", "e", "t", "s">>,
       <<"B", "i", "t", "s">> >>

\* save_to_csv: the header row, then one row per combination
save_to_csv(combos) == <<CsvHeader>> \o combos

\* next(reader), then the rows with len(row) >= 3
ReadRows(file) == SelectSeq(Tail(file), LAMBDA row : Len(row) >= 3)

Column(rows, k) == [i \in 1..Len(rows) |-> rows[i][k]]

\* collections.Counter: <<key, count>> in the order the keys were first seen
CounterAdd(counts, key) ==
    IF \E i \in 1..Len(counts) : counts[i][1] = key
    THEN [i \in 1..Len(counts) |->
             IF counts[i][1] = key THEN <<key, counts[i][2] + 1>> ELSE counts[i]]
    ELSE Append(counts, <<key, 1>>)

RECURSIVE Counter(_)
Counter(list) ==
    IF list = <<>> THEN <<>>
    ELSE CounterAdd(Counter(SubSeq(list, 1, Len(list) - 1)), list[Len(list)])

\* mutant of InsertByCount: an item goes before the items of equal count
RECURSIVE InsertByCountUnstable(_, _)
InsertByCountUnstable(sorted, item) ==
    IF sorted = <<>> THEN <<item>>
    ELSE IF Head(sorted)[2] <= item[2] THEN <<item>> \o sorted
         ELSE <<Head(sorted)>> \o InsertByCountUnstable(Tail(sorted), item)

\* sorted(items, key=lambda x: x[1], reverse=True) is stable: an item goes
\* after the items of greater or equal count that precede it
RECURSIVE InsertByCount(_, _)
InsertByCount(sorted, item) ==
    IF sorted = <<>> THEN <<item>>
    ELSE IF Head(sorted)[2] < item[2] THEN <<item>> \o sorted
         ELSE <<Head(sorted)>> \o InsertByCount(Tail(sorted), item)

RECURSIVE SortedByCount(_)
SortedByCount(items) ==
    IF items = <<>> THEN <<>>
    ELSE InsertByCount(SortedByCount(SubSeq(items, 1, Len(items) - 1)),
                       items[Len(items)])

\* generate_summary: the Blades, Ratchets and Bits sections
generate_summary(file) ==
    LET rows == ReadRows(file)
    IN [blades   |-> SortedByCount(Counter(Column(rows, 1))),
        ratchets |-> SortedByCount(Counter(Column(rows, 2))),
        bits     |-> SortedByCount(Counter(Column(rows, 3)))]

\* generate_combination_counts
generate_combination_counts(file) ==
    LET rows == ReadRows(file)
    IN SortedByCount(Counter([i \in 1..Len(rows) |->
                                 <<rows[i][1], rows[i][2], rows[i][3]>>]))

TopN == 10

Top(rows) == SubSeq(rows, 1, IF Len(rows) < TopN THEN Len(rows) ELSE TopN)

\* generate_html_charts: the top entries of the four reports
generate_html_charts(summary, combo_counts) ==
    [combo |-> Top(combo_counts), part1 |-> Top(summary.blades),
     part2 |-> Top(summary.ratchets), part3 |-> Top(summary.bits)]

(***************************************************************************)
(* main and scrape_time_period                                             *)
(***************************************************************************)
Days30 == 30
Days90 == 90
HardcodedStartPage == 22
MaxPagesToCheck == 2     \* stands for the 200 probes of scrape_time_period

Windows == 1..3

\* days of the three calls of scrape_time_period; a year has 365 days here
WindowDays(w) ==
    CASE w = 1 -> Days30 [] w = 2 -> Days90 [] OTHER -> now % 365

OutputPrefix(w) ==
    CASE w = 1 -> "30days" [] w = 2 -> "90days" [] OTHER -> "ytd"

\* hardcoded_start_page of the call
Hardcoded(w) == IF w = 3 THEN Some(HardcodedStartPage) ELSE None

\* search_start_page of the call: start_page_30days for the 90-day window
Hint(w) == IF w = 2 THEN results[1] ELSE None

NoFiles == <<>>

\* mutant of MainCall: search_start_page is not passed on
MainCallWithoutHint(w, start_page_30days) ==
    [days |-> WindowDays(w), hardcoded_start_page |-> Hardcoded(w),
     search_start_page |-> None]

\* the arguments main passes for window w, start_page_30days being what the
\* first call returned
MainCall(w, start_page_30days) ==
    [days |-> WindowDays(w), hardcoded_start_page |-> Hardcoded(w),
     search_start_page |-> IF w = 2 THEN start_page_30days ELSE None]

\* the next call of main, or its end
Advance ==
    /\ window' = window + 1
    /\ call' = IF window = 3 THEN NoCall ELSE MainCall(window + 1, results'[1])
    /\ pc' = IF window = 3 THEN "exit" ELSE "window"

\* html = fetch_page("last"); if not html: return None; main returns
LastPageFetchFailed ==
    /\ pc = "main"
    /\ failures < MaxFailures
    /\ LogFetch("last", 0, FALSE)
    /\ failures' = failures + 1
    /\ last_page_num' = None
    /\ pc' = "exit"
    /\ UNCHANGED <<forum, now, last_marker, window, results, outputs, call>>
    /\ UNCHANGED <<transVars, extractVars, locVars, scrapeVars>>

\* mutant of LastPageNoMarker: main does not return
LastPageNoMarkerGoesOn ==
    /\ pc = "main"
    /\ last_marker = None
    /\ LogFetch("last", 0, TRUE)
    /\ last_page_num' = None
    /\ pc' = "window"
    /\ window' = 1
    /\ call' = MainCall(1, None)
    /\ UNCHANGED <<forum, failures, now, last_marker, results, outputs>>
    /\ UNCHANGED <<transVars, extractVars, locVars, scrapeVars>>

\* no li.active.multipage-current with a number in it: None; main returns
LastPageNoMarker ==
    /\ pc = "main"
    /\ last_marker = None
    /\ LogFetch("last", 0, TRUE)
    /\ last_page_num' = None
    /\ pc' = "exit"
    /\ UNCHANGED <<forum, failures, now, last_marker, window, results, outputs, call>>
    /\ UNCHANGED <<transVars, extractVars, locVars, scrapeVars>>

\* return int(page_text); main goes on to the 30-day window
LastPageResolved ==
    /\ pc = "main"
    /\ last_marker # None
    /\ LogFetch("last", 0, TRUE)
    /\ last_page_num' = last_marker
    /\ pc' = "window"
    /\ window' = 1
    /\ call' = MainCall(1, None)
    /\ UNCHANGED <<forum, failures, now, last_marker, results, outputs>>
    /\ UNCHANGED <<transVars, extractVars, locVars, scrapeVars>>

\* search_from = search_start_page if search_start_page is not None else last_page_num
SearchFrom(search_start_page) ==
    IF search_start_page # None THEN search_start_page[1] ELSE last_page_num[1]

\* target_date = now - days; find_page_for_date(target_date, search_from, 200)
BeginSearch(days, search_start_page) ==
    /\ target_date' = now - days
    /\ start_page' = SearchFrom(search_start_page)
    /\ max_pages_to_check' = MaxPagesToCheck
    /\ page_num' = SearchFrom(search_start_page)
    /\ found' = None
    /\ pc' = "probe"

\* scrape_multiple_pages(start_page, last_page_num, translations)
BeginScrape(first_page) ==
    /\ scrape_start_page' = first_page
    /\ end_page' = last_page_num[1]
    /\ scrape_page_num' = first_page
    /\ all_combinations' = <<>>
    /\ pc' = "scrape"

\* scrape_time_period without hardcoded_start_page: the date search starts
StartSearch ==
    /\ pc = "window"
    /\ call.hardcoded_start_page = None
    /\ BeginSearch(call.days, call.search_start_page)
    /\ UNCHANGED <<netVars, transVars, extractVars, scrapeVars, runVars>>

\* mutant of StartHardcoded: search_start_page, when given, wins
StartHardcodedFromHint ==
    /\ pc = "window"
    /\ call.hardcoded_start_page # None
    /\ BeginScrape(IF call.search_start_page # None
                   THEN call.search_start_page[1]
                   ELSE call.hardcoded_start_page[1])
    /\ UNCHANGED <<netVars, transVars, extractVars, locVars, runVars>>

\* scrape_time_period with hardcoded_start_page: the walk starts at once
StartHardcoded ==
    /\ pc = "window"
    /\ call.hardcoded_start_page # None
    /\ BeginScrape(call.hardcoded_start_page[1])
    /\ UNCHANGED <<netVars, transVars, extractVars, locVars, runVars>>

\* mutant of SearchFailed: the run ends with the window
SearchFailedExits ==
    /\ pc = "located"
    /\ found = None
    /\ results' = [results EXCEPT ![window] = None]
    /\ window' = window + 1
    /\ call' = NoCall
    /\ pc' = "exit"
    /\ UNCHANGED <<now, last_marker, last_page_num, outputs>>
    /\ UNCHANGED <<netVars, transVars, extractVars, locVars, scrapeVars>>

\* if start_page is None: "Skipping."; return None
SearchFailed ==
    /\ pc = "located"
    /\ found = None
    /\ results' = [results EXCEPT ![window] = None]
    /\ Advance
    /\ UNCHANGED <<now, last_marker, last_page_num, outputs>>
    /\ UNCHANGED <<netVars, transVars, extractVars, locVars, scrapeVars>>

\* the start page was found: the walk starts there
SearchSucceeded ==
    /\ pc = "located"
    /\ found # None
    /\ BeginScrape(found[1])
    /\ UNCHANGED <<netVars, transVars, extractVars, locVars, runVars>>

\* if combinations: the four files are written; return start_page
SaveOutputs ==
    /\ pc = "scraped"
    /\ all_combinations # <<>>
    /\ LET csv          == save_to_csv(all_combinations)
           summary      == generate_summary(csv)
           combo_counts == generate_combination_counts(csv)
       IN outputs' = [outputs EXCEPT ![OutputPrefix(window)] =
                        [csv |-> csv, summary |-> summary,
                         combo_counts |-> combo_counts,
                         charts |-> generate_html_charts(summary, combo_counts)]]
    /\ results' = [results EXCEPT ![window] = Some(scrape_start_page)]
    /\ Advance
    /\ UNCHANGED <<now, last_marker, last_page_num>>
    /\ UNCHANGED <<netVars, transVars, extractVars, locVars, scrapeVars>>

\* else: "No combinations found."; return None
NoCombinations ==
    /\ pc = "scraped"
    /\ all_combinations = <<>>
    /\ results' = [results EXCEPT ![window] = None]
    /\ Advance
    /\ UNCHANGED <<now, last_marker, last_page_num, outputs>>
    /\ UNCHANGED <<netVars, transVars, extractVars, locVars, scrapeVars>>

NoResults == [w \in Windows |-> None]
NoOutputs == [prefix \in {OutputPrefix(w) : w \in Windows} |-> NoFiles]

(***************************************************************************)
(* Values of the variables a specification does not use                    *)
(***************************************************************************)
IdleTrans == suffix = <<>> /\ translations = <<>> /\ translated = <<>>
IdleExtract == html_content = NoContent /\ matches = <<>> /\ combinations = <<>>
IdleNet == forum = <<>> /\ fetch_log = <<>> /\ failures = 0
IdleLoc ==
    /\ target_date = 0 /\ start_page = 0 /\ max_pages_to_check = 0
    /\ page_num = 0 /\ found = None
IdleScrape ==
    /\ scrape_start_page = 0 /\ end_page = 0 /\ scrape_page_num = 0
    /\ all_combinations = <<>>
IdleRun ==
    /\ now = 0 /\ last_marker = None /\ last_page_num = None /\ window = 0
    /\ results = <<>> /\ outputs = <<>>
    /\ call = NoCall

(***************************************************************************)
(* SpecTranslate: translate_suffix applied to every suffix and table       *)
(***************************************************************************)
MaxTable == 2        \* entries of the translation table

TransKeys == {<<"a">>, <<"A">>, <<"b">>, <<"a", "B">>, <<"A", "b">>}
TransValues == {<<"C">>, <<"D">>, <<"a">>}
TransSuffixes == {<<"a">>, <<"A">>, <<"b">>, <<"B">>, <<"a", "b">>, <<"A", "B">>, <<"c">>}
TransEntries == [key : TransKeys, value : TransValues]

\* a dict in insertion order: no key twice
IsTable(table) ==
    \A i, j \in 1..Len(table) : table[i].key = table[j].key => i = j

TransTables ==
    UNION {{t \in [1..n -> TransEntries] : IsTable(t)} : n \in 0..MaxTable}

InitTranslate ==
    /\ pc = "translate"
    /\ suffix \in TransSuffixes
    /\ translations \in TransTables
    /\ translated = <<>>
    /\ IdleExtract /\ IdleNet /\ IdleLoc /\ IdleScrape /\ IdleRun

Translate ==
    /\ pc = "translate"
    /\ translated' = translate_suffix(suffix, translations)
    /\ pc' = "translated"
    /\ UNCHANGED <<suffix, translations, extractVars, netVars, locVars, scrapeVars, runVars>>

\* translate_suffix is applied to its own result, with the same table
TranslateAgain ==
    /\ pc = "translated"
    /\ suffix' = translated
    /\ translated' = translate_suffix(translated, translations)
    /\ pc' = "retranslated"
    /\ UNCHANGED <<translations, extractVars, netVars, locVars, scrapeVars, runVars>>

NextTranslate == Translate \/ TranslateAgain

SpecTranslate == InitTranslate /\ [][NextTranslate]_vars

\* two strings are equal up to the case of their letters
SameLetter(c, d) ==
    c = d \/ {c, d} \in {{"a", "A"}, {"b", "B"}, {"c", "C"}, {"d", "D"}}

CaseEq(s, t) ==
    Len(s) = Len(t) /\ \A i \in 1..Len(s) : SameLetter(s[i], t[i])

\* C10: the result is the value of the exact key when there is one; otherwise
\* the value of the first key in insertion order equal to the suffix up to
\* case; otherwise the suffix itself.
C10_TranslateContract ==
    pc \in {"translated", "retranslated"} =>
      /\ \A i \in 1..Len(translations) :
            translations[i].key = suffix => translated = translations[i].value
      /\ (\A i \in 1..Len(translations) : translations[i].key # suffix) =>
            /\ \A i \in 1..Len(translations) :
                  ( /\ CaseEq(translations[i].key, suffix)
                    /\ \A k \in 1..(i - 1) : ~CaseEq(translations[k].key, suffix) )
                  => translated = translations[i].value
            /\ (\A i \in 1..Len(translations) : ~CaseEq(translations[i].key, suffix))
                  => translated = suffix

\* C10 witness: an exact key, inserted after a key that matches the suffix up
\* to case and carries another value, decides the result
C10_Witness ==
    /\ pc = "translated"
    /\ \E i, k \in 1..Len(translations) :
          /\ k < i
          /\ translations[i].key = suffix
          /\ translations[k].key # suffix /\ CaseEq(translations[k].key, suffix)
          /\ translations[k].value # translations[i].value
          /\ translated = translations[i].value

\* C11 as stated: when the first result is not an exact key of the table,
\* translating it again gives it back
C11_IdempotentUnlessExactKey ==
    ( /\ pc = "retranslated"
      /\ \A i \in 1..Len(translations) : translations[i].key # suffix )
    => translated = suffix

\* C11: when the first result is not a key of the table, neither exactly nor
\* up to the case of its letters, translating it again gives it back
C11_IdempotentUnlessKeyUpToCase ==
    ( /\ pc = "retranslated"
      /\ \A i \in 1..Len(translations) : ~CaseEq(translations[i].key, suffix) )
    => translated = suffix

\* C11 witness: the first result is a value of the table that no suffix of
\* the inputs equals and no key matches, and the second result is that value
C11_Witness ==
    /\ pc = "retranslated"
    /\ suffix \notin TransSuffixes
    /\ \E i \in 1..Len(translations) : translations[i].value = suffix
    /\ \A i \in 1..Len(translations) : ~CaseEq(translations[i].key, suffix)
    /\ translated = suffix

(***************************************************************************)
(* SpecExtract: extract_combinations applied to pages whose post text is   *)
(* one record, or two records around a separator                           *)
(***************************************************************************)
RecordFirsts == {<<"a">>, <<"B", "c">>, <<"a", " ", "b">>, <<"a", "\t", "b">>}
RecordRatchets == {<<"1", "-", "2">>, <<"1", "2", "-", "1">>}
RecordThirds == {<<"c">>, <<"D">>, <<"c", " ", "d">>}
Records == [first : RecordFirsts, ratchet : RecordRatchets, third : RecordThirds]

\* a record as it is written in a post
Written(r) == r.first \o <<" ">> \o r.ratchet \o r.third

BlankSeparators == {<<" ">>, <<"\t">>, <<" ", " ">>}
LineSeparators == {<<"\n">>, <<" ", "\n">>, <<"\r", "\n">>}
OtherSeparators == {<<",", " ">>, <<"(">>, <<"#">>, <<>>}
Separators == BlankSeparators \cup LineSeparators \cup OtherSeparators

ExtractTexts ==
    {Written(r) : r \in Records}
      \cup {Written(r1) \o sep \o Written(r2) :
               r1 \in Records, r2 \in Records, sep \in Separators}

\* a page with one post body, and a page without post bodies
ExtractPages ==
    {Html(<<>>, <<t>>, NavText) : t \in ExtractTexts}
      \cup {Html(<<>>, <<>>, Written(r)) : r \in Records}

ExtractTables ==
    { <<>>,
      <<[key |-> <<"c">>, value |-> <<"C", "a">>]>>,
      <<[key |-> <<"d">>, value |-> <<"D", " ", "a">>],
        [key |-> <<"C", "D">>, value |-> <<"b">>]>> }

InitExtract ==
    /\ pc = "extract"
    /\ html_content \in ExtractPages
    /\ translations \in ExtractTables
    /\ matches = <<>> /\ combinations = <<>>
    /\ suffix = <<>> /\ translated = <<>>
    /\ IdleNet /\ IdleLoc /\ IdleScrape /\ IdleRun

Extract ==
    /\ pc = "extract"
    /\ matches' = MatchesOf(PostTexts(html_content))
    /\ combinations' = extract_combinations(html_content, translations)
    /\ pc' = "extracted"
    /\ UNCHANGED <<suffix, translations, translated, html_content>>
    /\ UNCHANGED <<netVars, locVars, scrapeVars, runVars>>

NextExtract == Extract

SpecExtract == InitExtract /\ [][NextExtract]_vars

\* the triple a written record stands for
TripleOf(r, table) ==
    <<RemoveSpaces(r.first), r.ratchet,
      RemoveSpaces(IF table = <<>> THEN r.third ELSE translate_suffix(r.third, table))>>

HasLineBreak(s) == \E i \in 1..Len(s) : s[i] = "\n"

\* C4 (as claimed): a post of two records on one line, separated by blanks
\* only, yields exactly two triples, the first fields of which are the first
\* fields of the two records.
C4_TwoRecordsOnOneLine ==
    pc = "extracted" =>
      \A r1, r2 \in Records : \A sep \in BlankSeparators :
        html_content.post_bodies = <<Written(r1) \o sep \o Written(r2)>> =>
          /\ Len(combinations) = 2
          /\ combinations[1][1] = RemoveSpaces(r1.first)
          /\ combinations[2][1] = RemoveSpaces(r2.first)

\* C5: a post of two records on consecutive lines yields exactly the two
\* triples of its records, and no match has a line break in its first or third
\* group.
C5_TwoRecordsOnTwoLines ==
    pc = "extracted" =>
      \A r1, r2 \in Records :
        html_content.post_bodies = <<Written(r1) \o <<"\n">> \o Written(r2)>> =>
          /\ combinations = <<TripleOf(r1, translations), TripleOf(r2, translations)>>
          /\ \A i \in 1..Len(matches) :
                ~HasLineBreak(matches[i][1]) /\ ~HasLineBreak(matches[i][3])

\* C5 witness: two records of several words each, on consecutive lines, were
\* extracted as two triples
C5_Witness ==
    /\ pc = "extracted"
    /\ Len(combinations) = 2
    /\ \E r1, r2 \in Records :
          /\ Len(r1.third) > 1 /\ Len(r2.first) > 1
          /\ html_content.post_bodies = <<Written(r1) \o <<"\n">> \o Written(r2)>>

\* C14 (as claimed): every triple has three fields that are not empty and
\* hold no space, no tab and no line break
C14_FieldsAreSingleTokens ==
    pc = "extracted" =>
      \A i \in 1..Len(combinations) : \A f \in 1..3 :
          /\ combinations[i][f] # <<>>
          /\ \A k \in 1..Len(combinations[i][f]) :
                combinations[i][f][k] \notin {" ", "\t", "\n"}

\* the part of C14 the code keeps: no field is empty or holds a space or a
\* line break
C14_FieldsWithoutSpaceOrLineBreak ==
    pc = "extracted" =>
      \A i \in 1..Len(combinations) : \A f \in 1..3 :
          /\ combinations[i][f] # <<>>
          /\ \A k \in 1..Len(combinations[i][f]) :
                combinations[i][f][k] \notin {" ", "\n"}

\* a first field written as two words around a tab is emitted with the tab
C14_TabKept ==
    /\ pc = "extracted"
    /\ \E i \in 1..Len(combinations) : combinations[i][1] = <<"a", "\t", "b">>

(***************************************************************************)
(* SpecLocate: find_page_for_date called with every start page, budget and *)
(* target over every forum of LocPageKinds pages.                          *)
(***************************************************************************)
MaxStart == 2        \* start pages 1..MaxStart

LocPages == (1 - MaxStart)..MaxStart
LocBudgets == 0..(MaxStart + 1)
LocTargets == {1, 2, 3}
LocPageKinds ==
    {Html(d, <<>>, NavText) : d \in {<<>>, <<1>>, <<3, 1>>, <<2, 3>>}}

InitLocate ==
    /\ pc = "probe"
    /\ forum \in [LocPages -> LocPageKinds]
    /\ fetch_log = <<>> /\ failures = 0
    /\ target_date \in LocTargets
    /\ start_page \in 1..MaxStart
    /\ max_pages_to_check \in LocBudgets
    /\ page_num = start_page
    /\ found = None
    /\ IdleTrans /\ IdleExtract /\ IdleScrape /\ IdleRun

NextLocate == ProbeFailed \/ ProbeNoDates \/ ProbeMiss \/ ProbeFound \/ ProbeGiveUp

SpecLocate == InitLocate /\ [][NextLocate]_vars

\* a page has a timestamp at or before t and one at or after t
Brackets(html, t) ==
    \E i, j \in 1..Len(html.dates) : html.dates[i] <= t /\ t <= html.dates[j]

\* the i-th fetch returned a page whose timestamps bracket the target
ProbeBrackets(i) ==
    fetch_log[i].ok /\ Brackets(forum[fetch_log[i].page], target_date)

\* C1: the probes are start_page, start_page - 1, ... in this order, at most
\* max_pages_to_check of them; a returned page is the last page fetched, it was
\* fetched with content and its timestamps bracket the target, and every page
\* probed before it failed to fetch, had no timestamp or did not bracket it.
C1_FirstBracketingPage ==
    /\ Len(fetch_log) <= max_pages_to_check
    /\ \A i \in 1..Len(fetch_log) : fetch_log[i].page = start_page - (i - 1)
    /\ (pc = "located" /\ found # None) =>
          /\ fetch_log # <<>>
          /\ fetch_log[Len(fetch_log)].page = found[1]
          /\ ProbeBrackets(Len(fetch_log))
          /\ \A i \in 1..(Len(fetch_log) - 1) : ~ProbeBrackets(i)

\* C1 witness: a page is returned after a failed fetch and a page without
\* timestamps were passed over
C1_Witness ==
    /\ pc = "located" /\ found # None
    /\ \E i, j \in 1..(Len(fetch_log) - 1) :
          /\ ~fetch_log[i].ok
          /\ fetch_log[j].ok /\ forum[fetch_log[j].page].dates = <<>>

\* C2: the result is None exactly when no probed page bracketed the target,
\* and then the whole budget was probed; when the target precedes every
\* timestamp of every page of the probe window, the result is None.
C2_NotFoundIffNoBracket ==
    pc = "located" =>
      /\ (found = None) <=> (\A i \in 1..Len(fetch_log) : ~ProbeBrackets(i))
      /\ (found = None) => Len(fetch_log) = max_pages_to_check
      /\ (\A p \in (start_page - max_pages_to_check + 1)..start_page :
             \A i \in 1..Len(forum[p].dates) : target_date < forum[p].dates[i])
           => found = None

\* C2 witness: every page of a window of two or more pages was fetched, each
\* carries timestamps, all of them after the target, and the result is None
C2_Witness ==
    /\ pc = "located" /\ found = None
    /\ max_pages_to_check >= 2
    /\ \A i \in 1..Len(fetch_log) :
          /\ fetch_log[i].ok
          /\ forum[fetch_log[i].page].dates # <<>>
          /\ \A k \in 1..Len(forum[fetch_log[i].page].dates) :
                target_date < forum[fetch_log[i].page].dates[k]

\* C15 (as claimed): every page number the search passes to fetch_page is
\* at least 1 and at most the page the search started from, and a returned
\* page lies in 1..start_page
C15_PagesAreOneBased ==
    /\ \A i \in 1..Len(fetch_log) :
          1 <= fetch_log[i].page /\ fetch_log[i].page <= start_page
    /\ found # None => (1 <= found[1] /\ found[1] <= start_page)

\* the part of C15 the code keeps: no page after start_page is fetched or
\* returned
C15_PagesUpToStartPage ==
    /\ \A i \in 1..Len(fetch_log) : fetch_log[i].page <= start_page
    /\ found # None => found[1] <= start_page

\* a search with more probes than pages before its start page returns a page
\* number below 1
C15_ReturnsPageBelowOne ==
    /\ pc = "located"
    /\ found # None /\ found[1] < 1

(***************************************************************************)
(* SpecScrape: scrape_multiple_pages called with every start and end page  *)
(* over every forum of ScrapePageKinds pages.                              *)
(***************************************************************************)
MaxEnd == 3          \* pages 1..MaxEnd

RecordA == [first |-> <<"a">>, ratchet |-> <<"1", "-", "2">>, third |-> <<"c">>]
RecordB == [first |-> <<"B", "c">>, ratchet |-> <<"1", "2", "-", "1">>, third |-> <<"D">>]

ScrapePageKinds ==
    { Html(<<1>>, <<>>, NavText),
      Html(<<1>>, <<Written(RecordA)>>, NavText),
      Html(<<1>>, <<Written(RecordA), Written(RecordB)>>, NavText),
      Html(<<1>>, <<Written(RecordB) \o <<"\n">> \o Written(RecordA)>>, NavText) }

InitScrape ==
    /\ pc = "scrape"
    /\ forum \in [1..MaxEnd -> ScrapePageKinds]
    /\ fetch_log = <<>> /\ failures = 0
    /\ scrape_start_page \in 1..MaxEnd
    /\ end_page \in 1..MaxEnd
    /\ scrape_page_num = scrape_start_page
    /\ all_combinations = <<>>
    /\ suffix = <<>> /\ translated = <<>>
    /\ translations \in {<<>>, <<[key |-> <<"c">>, value |-> <<"C", "a">>]>>}
    /\ IdleExtract /\ IdleLoc /\ IdleRun

NextScrape == ScrapeFailed \/ ScrapePage \/ ScrapeReturn

SpecScrape == InitScrape /\ [][NextScrape]_vars

\* the combinations of the logged pages that returned content, in log order
RECURSIVE CombinationsOfLog(_)
CombinationsOfLog(log) ==
    IF log = <<>> THEN <<>>
    ELSE CombinationsOfLog(SubSeq(log, 1, Len(log) - 1))
           \o (IF log[Len(log)].ok
               THEN extract_combinations(forum[log[Len(log)].page], translations)
               ELSE <<>>)

\* C6: the walk fetches scrape_start_page, scrape_start_page + 1, ... in this
\* order, every page of scrape_start_page..end_page once by the time it
\* returns, whichever fetches fail; the result is the concatenation, in that
\* order, of the combinations of the pages that returned content.
C6_WalkEveryPageOnce ==
    /\ \A i \in 1..Len(fetch_log) : fetch_log[i].page = scrape_start_page + (i - 1)
    /\ all_combinations = CombinationsOfLog(fetch_log)
    /\ pc = "scraped" =>
          /\ Len(fetch_log) = (IF end_page >= scrape_start_page
                               THEN end_page - scrape_start_page + 1 ELSE 0)

\* C6 witness: a walk of three pages returned with a failed page between two
\* pages that contributed the same combination
C6_Witness ==
    /\ pc = "scraped"
    /\ Len(fetch_log) = 3
    /\ fetch_log[1].ok /\ ~fetch_log[2].ok /\ fetch_log[3].ok
    /\ Len(all_combinations) >= 2
    /\ all_combinations[1] = all_combinations[Len(all_combinations)]

(***************************************************************************)
(* SpecReport: the reports written from every list of ReportLists          *)
(***************************************************************************)
MaxList == 4         \* combinations of one window

ReportTriples ==
    { << <<"A">>, <<"1", "-", "1">>, <<"C">> >>,
      << <<"B">>, <<"2", "-", "2">>, <<"D">> >>,
      << <<"A">>, <<"2", "-", "2">>, <<"C">> >>,
      << <<"B">>, <<"1", "-", "1">>, <<"C">> >> }

ReportLists == UNION {[1..n -> ReportTriples] : n \in 0..MaxList}

InitReport ==
    /\ pc = "scraped"
    /\ all_combinations \in ReportLists
    /\ scrape_start_page = HardcodedStartPage /\ end_page = HardcodedStartPage
    /\ scrape_page_num = HardcodedStartPage + 1
    /\ window \in Windows
    /\ now = 0 /\ last_marker = Some(HardcodedStartPage)
    /\ last_page_num = Some(HardcodedStartPage)
    /\ results = NoResults /\ outputs = NoOutputs
    /\ call = MainCall(window, None)
    /\ IdleTrans /\ IdleExtract /\ IdleNet /\ IdleLoc

NextReport == SaveOutputs \/ NoCombinations

SpecReport == InitReport /\ [][NextReport]_vars

\* number of places of a list that hold k
Occurrences(list, k) == Cardinality({i \in 1..Len(list) : list[i] = k})

FirstPlace(list, k) ==
    CHOOSE i \in 1..Len(list) : list[i] = k /\ \A j \in 1..(i - 1) : list[j] # k

\* report holds every key of list once, with its number of occurrences, by
\* count descending and, at equal counts, by first occurrence in list
IsCountReport(report, list) ==
    /\ \A i \in 1..Len(list) : \E r \in 1..Len(report) : report[r][1] = list[i]
    /\ \A r \in 1..Len(report) : report[r][2] = Occurrences(list, report[r][1])
    /\ \A r \in 1..Len(report) : report[r][2] >= 1
    /\ \A q, r \in 1..Len(report) : report[q][1] = report[r][1] => q = r
    /\ \A q, r \in 1..Len(report) :
          q < r => \/ report[q][2] > report[r][2]
                   \/ /\ report[q][2] = report[r][2]
                      /\ FirstPlace(list, report[q][1]) < FirstPlace(list, report[r][1])

\* C9: the combination counts and the three sections of the summary written
\* for a window are count reports of the scraped combinations and of their
\* three columns.
C9_CountReports ==
    \A prefix \in DOMAIN outputs :
      (outputs[prefix] # NoFiles /\ prefix = OutputPrefix(window - 1)) =>
        /\ IsCountReport(outputs[prefix].combo_counts, all_combinations)
        /\ IsCountReport(outputs[prefix].summary.blades, Column(all_combinations, 1))
        /\ IsCountReport(outputs[prefix].summary.ratchets, Column(all_combinations, 2))
        /\ IsCountReport(outputs[prefix].summary.bits, Column(all_combinations, 3))

\* C9 witness: the reports of (A,1-1,C), (A,1-1,C), (B,2-2,D), and reports
\* in which a tie is broken against the order of the keys
C9_Witness ==
    \E prefix \in DOMAIN outputs :
      /\ outputs[prefix] # NoFiles
      /\ all_combinations = << << <<"A">>, <<"1", "-", "1">>, <<"C">> >>,
                                << <<"A">>, <<"1", "-", "1">>, <<"C">> >>,
                                << <<"B">>, <<"2", "-", "2">>, <<"D">> >> >>
      /\ outputs[prefix].combo_counts =
            << << << <<"A">>, <<"1", "-", "1">>, <<"C">> >>, 2 >>,
               << << <<"B">>, <<"2", "-", "2">>, <<"D">> >>, 1 >> >>

C9_WitnessTie ==
    \E prefix \in DOMAIN outputs :
      /\ outputs[prefix] # NoFiles
      /\ Len(outputs[prefix].summary.blades) = 2
      /\ outputs[prefix].summary.blades[1] = << <<"B">>, 2 >>
      /\ outputs[prefix].summary.blades[2] = << <<"A">>, 2 >>

(***************************************************************************)
(* SpecRun: main() from get_last_page_number to the end of the third       *)
(* window, over forums whose post dates do not decrease with the page      *)
(* number.                                                                 *)
(***************************************************************************)
RunNow == 400 + Days90

\* the timestamps a page of the forum may carry, relative to the two targets
RunDates == {RunNow - Days90 - 1, RunNow - Days90, RunNow - Days30, RunNow - 1}

RunDateLists ==
    {<<>>} \cup {dl \in RunDates \X RunDates : dl[1] <= dl[2]}

RunLasts == HardcodedStartPage..(HardcodedStartPage + 1)

\* the pages whose content varies; the pages before them are older than both
\* targets
RunFirstFree == HardcodedStartPage - 1
RunPages == (RunFirstFree - 2 * MaxPagesToCheck)..(HardcodedStartPage + 1)

OldPage == Html(<<RunNow - Days90 - 1>>, <<Written(RecordA)>>, NavText)

RunTexts == {<<>>, <<Written(RecordA)>>}

\* no timestamp of a page is after a timestamp of a later page
Monotone(f) ==
    \A p, q \in DOMAIN f :
        p < q => \A i \in 1..Len(f[p].dates) : \A j \in 1..Len(f[q].dates) :
                    f[p].dates[i] <= f[q].dates[j]

RunPageKinds == {Html(dl, t, NavText) : dl \in RunDateLists, t \in RunTexts}

RunForums(last) ==
    {f \in {[p \in RunPages |-> IF p \in RunFirstFree..last THEN g[p] ELSE OldPage] :
               g \in [RunFirstFree..last -> RunPageKinds]} :
        Monotone([p \in RunPages \cap ((RunFirstFree - 2 * MaxPagesToCheck)..last)
                    |-> f[p]])}

InitRun ==
    /\ pc = "main"
    /\ now = RunNow
    /\ last_marker \in {None} \cup {Some(n) : n \in RunLasts}
    /\ forum \in RunForums(IF last_marker = None THEN RunFirstFree - 1 ELSE last_marker[1])
    /\ fetch_log = <<>> /\ failures = 0
    /\ last_page_num = None /\ window = 0
    /\ results = NoResults /\ outputs = NoOutputs
    /\ call = NoCall
    /\ translations = <<>> /\ suffix = <<>> /\ translated = <<>>
    /\ IdleExtract /\ IdleLoc /\ IdleScrape

NextRun ==
    \/ LastPageFetchFailed \/ LastPageNoMarker \/ LastPageResolved
    \/ StartSearch \/ StartHardcoded
    \/ ProbeFailed \/ ProbeNoDates \/ ProbeMiss \/ ProbeFound \/ ProbeGiveUp
    \/ SearchFailed \/ SearchSucceeded
    \/ ScrapeFailed \/ ScrapePage \/ ScrapeReturn
    \/ SaveOutputs \/ NoCombinations

SpecRun == InitRun /\ [][NextRun]_vars

\* the fetches made for a window, by purpose
FetchesOf(w, purpose) ==
    {i \in 1..Len(fetch_log) : fetch_log[i].window = w /\ fetch_log[i].purpose = purpose}

\* the call of scrape_time_period for window w has returned
Returned(w) == window > w

\* the date search of window w ended without a page: no probe of it returned
\* a page whose timestamps bracket the window's target date
SearchGaveUp(w) ==
    /\ Returned(w) /\ Hardcoded(w) = None
    /\ \A i \in FetchesOf(w, "probe") :
          ~(fetch_log[i].ok /\ Brackets(forum[fetch_log[i].page], now - WindowDays(w)))

\* C7: with the last page number resolved, a window whose date search found
\* no page scrapes nothing and writes no file; the fetches are made window
\* after window, and the run ends only after the three windows, each of which
\* made its fetches.
C7_FailedSearchSkipsOnlyItsWindow ==
    /\ \A w \in Windows :
          SearchGaveUp(w) =>
            /\ FetchesOf(w, "scrape") = {}
            /\ outputs[OutputPrefix(w)] = NoFiles
            /\ results[w] = None
    /\ \A i, j \in 1..Len(fetch_log) :
          i < j => fetch_log[i].window <= fetch_log[j].window
    /\ (pc = "exit" /\ last_page_num # None) =>
          /\ window = 4
          /\ \A w \in Windows : \E i \in 1..Len(fetch_log) : fetch_log[i].window = w
          /\ FetchesOf(3, "scrape") # {}

\* C7 witness: the 30-day search probed and found no page, and the 90-day
\* and year-to-date windows wrote their files
C7_Witness ==
    /\ pc = "exit"
    /\ SearchGaveUp(1) /\ FetchesOf(1, "probe") # {}
    /\ outputs["30days"] = NoFiles
    /\ outputs["90days"] # NoFiles /\ outputs["ytd"] # NoFiles

\* C8: once the fetch of the last page has not given a page number, the run
\* is over: that fetch is the only one, no window was started and no file is
\* written.
C8_UnresolvedLastPageEndsRun ==
    (fetch_log # <<>> /\ last_page_num = None) =>
      /\ pc = "exit"
      /\ Len(fetch_log) = 1 /\ fetch_log[1].purpose = "last"
      /\ window = 0
      /\ results = NoResults
      /\ outputs = NoOutputs

\* C8 witness: the last page came back without a current-page marker
C8_Witness ==
    /\ pc = "exit"
    /\ last_page_num = None
    /\ fetch_log # <<>> /\ fetch_log[1].ok

\* the i-th fetch is the probe on which the 30-day search found its page
Found30(i) ==
    /\ i \in FetchesOf(1, "probe")
    /\ fetch_log[i].ok
    /\ Brackets(forum[fetch_log[i].page], now - Days30)

\* the j-th fetch is the first probe of the 90-day search
FirstProbe90(j) ==
    /\ j \in FetchesOf(2, "probe")
    /\ \A k \in FetchesOf(2, "probe") : j <= k

\* every fetch of the 30-day window was made before the j-th fetch
After30(j) ==
    \A k \in 1..Len(fetch_log) : fetch_log[k].window = 1 => k < j

\* C13 as stated: whenever the 30-day search found its page, the first probe
\* of the 90-day search is on that page, after every fetch of the 30-day
\* window
C13_ProbeFromFoundPage ==
    \A i, j \in 1..Len(fetch_log) :
        (Found30(i) /\ FirstProbe90(j)) =>
            /\ fetch_log[j].page = fetch_log[i].page
            /\ After30(j)

\* C13: whenever the 30-day search found its page and the walk from it gave
\* at least one combination (the 30-day files were written), the first probe
\* of the 90-day search is on that page; in every other case it is on the
\* last page; in both it comes after every fetch of the 30-day window
C13_ProbeFromReturnedPage ==
    \A j \in 1..Len(fetch_log) :
        FirstProbe90(j) =>
            /\ After30(j)
            /\ IF outputs["30days"] # NoFiles
               THEN \E i \in 1..Len(fetch_log) :
                       Found30(i) /\ fetch_log[j].page = fetch_log[i].page
               ELSE fetch_log[j].page = last_page_num[1]

\* C13 witness: the 30-day search found a page before the last page, its
\* files were written, and the 90-day search made its first probe there
C13_Witness ==
    \E i, j \in 1..Len(fetch_log) :
        /\ Found30(i) /\ FirstProbe90(j)
        /\ outputs["30days"] # NoFiles
        /\ fetch_log[i].page < last_page_num[1]
        /\ fetch_log[j].page = fetch_log[i].page

(***************************************************************************)
(* SpecHint: the date search of scrape_time_period for the 30-day window,  *)
(* then for the 90-day window with search_start_page set to the page found *)
(* for the 30-day window, then for the 90-day window without               *)
(* search_start_page, over the forums of SpecRun.  results[1..3] are the   *)
(* start pages of the three searches.                                      *)
(***************************************************************************)
InitHint ==
    /\ pc = "window"
    /\ now = RunNow
    /\ last_marker \in {Some(n) : n \in RunLasts}
    /\ last_page_num = last_marker
    /\ forum \in RunForums(last_marker[1])
    /\ fetch_log = <<>> /\ failures = 0
    /\ window = 1
    /\ results = NoResults /\ outputs = NoOutputs
    /\ call = MainCall(1, None)
    /\ IdleTrans /\ IdleExtract /\ IdleLoc /\ IdleScrape

\* the search of the 30-day window, and the hinted search of the 90-day window
HintedSearch ==
    /\ window \in {1, 2}
    /\ StartSearch

\* the start page of a search is kept; without a page for the 30-day window
\* there is no hint to compare
SearchReturned ==
    /\ pc = "located"
    /\ results' = [results EXCEPT ![window] = found]
    /\ window' = window + 1
    /\ call' = CASE window = 1 -> MainCall(2, found)
                [] window = 2 -> MainCall(2, None)
                [] OTHER -> NoCall
    /\ pc' = IF window = 3 \/ (window = 1 /\ found = None) THEN "exit" ELSE "window"
    /\ UNCHANGED <<now, last_marker, last_page_num, outputs>>
    /\ UNCHANGED <<netVars, transVars, extractVars, locVars, scrapeVars>>

\* the search of the 90-day window with search_start_page=None
UnhintedSearch ==
    /\ window = 3
    /\ StartSearch

NextHint ==
    \/ HintedSearch \/ UnhintedSearch \/ SearchReturned
    \/ ProbeFailed \/ ProbeNoDates \/ ProbeMiss \/ ProbeFound \/ ProbeGiveUp

SpecHint == InitHint /\ [][NextHint]_vars

\* C3 (as claimed): when no fetch failed, the 90-day search started from the
\* 30-day window's start page ends as the 90-day search started from the last
\* page does: the same page, or no page in both.
C3_HintKeepsStartPage ==
    (pc = "exit" /\ window = 4 /\ failures = 0) => results[2] = results[3]

\* the part of C3 the code keeps: a page found from the last page is also the
\* page found from the 30-day window's start page
C3_HintFindsWhatUnhintedFinds ==
    (pc = "exit" /\ window = 4 /\ failures = 0 /\ results[3] # None)
      => results[2] = results[3]

\* the hinted search finds a page that lies more than max_pages_to_check - 1
\* pages before the last page, and the unhinted search gives up
C3_HintReachesFurther ==
    /\ pc = "exit" /\ window = 4 /\ failures = 0
    /\ results[3] = None /\ results[2] # None
    /\ results[2][1] <= last_page_num[1] - MaxPagesToCheck

(***************************************************************************)
(* SpecPeriod: one call of scrape_time_period with any arguments, over the *)
(* forums of SpecRun, from its first line to its return.                   *)
(***************************************************************************)
PeriodDays == {Days30, Days90}
PeriodPages == RunFirstFree..(HardcodedStartPage + 1)
PeriodHints == {None} \cup {Some(p) : p \in {RunFirstFree, HardcodedStartPage + 1}}
PeriodCalls ==
    [days : PeriodDays,
     hardcoded_start_page : {None} \cup {Some(p) : p \in PeriodPages},
     search_start_page : PeriodHints]

InitPeriod ==
    /\ pc = "window"
    /\ now = RunNow
    /\ last_marker \in {Some(n) : n \in RunLasts}
    /\ last_page_num = last_marker
    /\ forum \in RunForums(last_marker[1])
    /\ fetch_log = <<>> /\ failures = 0
    /\ window = 3
    /\ call \in PeriodCalls
    /\ results = NoResults /\ outputs = NoOutputs
    /\ IdleTrans /\ IdleExtract /\ IdleLoc /\ IdleScrape

NextPeriod ==
    \/ StartSearch \/ StartHardcoded
    \/ ProbeFailed \/ ProbeNoDates \/ ProbeMiss \/ ProbeFound \/ ProbeGiveUp
    \/ SearchFailed \/ SearchSucceeded
    \/ ScrapeFailed \/ ScrapePage \/ ScrapeReturn
    \/ SaveOutputs \/ NoCombinations

SpecPeriod == InitPeriod /\ [][NextPeriod]_vars

\* C12: in a call with hardcoded_start_page set, whatever days and
\* search_start_page are, no probe is fetched and the date search leaves no
\* trace; the fetches are those of the walk, page hardcoded_start_page first
\* and each next page one higher, none beyond last_page_num, and the walk is
\* over only when every page up to last_page_num was fetched.
C12_HardcodedSkipsSearch ==
    call.hardcoded_start_page # None =>
      /\ IdleLoc
      /\ \A i \in 1..Len(fetch_log) :
            /\ fetch_log[i].purpose = "scrape"
            /\ fetch_log[i].page = call.hardcoded_start_page[1] + i - 1
            /\ fetch_log[i].page <= last_page_num[1]
      /\ pc = "scraped" =>
            call.hardcoded_start_page[1] + Len(fetch_log) > last_page_num[1]

\* C12 witness: the walk of a call with hardcoded_start_page, with a
\* search_start_page on another page and a target date that a page before
\* hardcoded_start_page brackets, is over and fetched several pages
C12_Witness ==
    /\ pc = "scraped"
    /\ call.hardcoded_start_page # None /\ call.search_start_page # None
    /\ call.search_start_page # call.hardcoded_start_page
    /\ Len(fetch_log) >= 2
    /\ \E p \in PeriodPages :
          /\ p < call.hardcoded_start_page[1]
          /\ Brackets(forum[p], now - call.days)

====
